---- MODULE Spec2Model ----
(***************************************************************************)
(* A model of go-astiocr's trainer: NewTrainer (the split, the styles)     *)
(* and Trainer.Gather (the synthetic corpus generator) with the grid pass  *)
(* of drawCharacters.                                                      *)
(*                                                                         *)
(* Five specifications share the variables:                                *)
(*   SpecTrainer  NewTrainer applied to every configuration in the bounds  *)
(*   SpecGrid     one sample of createImageStrategy2, one grid cell a step *)
(*   SpecCells    the grid pass over the default canvas, no cell drawn     *)
(*   SpecStyle    one sample of each configuration of colors and fonts     *)
(*   Spec         one run of Gather, with the caller's cancellation and    *)
(*                the failures of the file system and of the python script *)
(***************************************************************************)
EXTENDS Integers, Sequences, FiniteSets, TLC

VARIABLES
    cfg,              \* the ConfigurationTrainer handed to NewTrainer
    t,                \* the Trainer: count, trainingDataCount, testDataCount, image
    pc,               \* position of the running operation
    fontSize,         \* drawCharacters: fontSize (0: not drawn yet)
    coverage,         \* createImageStrategy2: coverage
    row,              \* drawCharacters: row
    col,              \* drawCharacters: col
    style,            \* initParams: the indexes selected (scheme, font color, font)
    drawn,            \* history: charIdx of the last cell visited (-1: nothing placed)
    visited,          \* history: number of cells the two loops visited
    si,               \* the GatherSummaryImage under construction
    idx,              \* Gather: loop index
    summaryTraining,  \* Gather: summaryTraining.Images
    summaryTest,      \* Gather: summaryTest.Images
    err,              \* Gather: the named result err
    ctxDone,          \* ctx.Err() != nil
    dirs,             \* directories present under the data directory
    files,            \* image files present in the images directory, by name
    labelMap,         \* the items written to label_map.pbtxt
    docs,             \* the summary.json documents created
    prepared,         \* number of times prepare_data.py was launched
    generated,        \* history: number of boxes of each sample created, by index
    observedAt,       \* history: the idx at which the loop observed the cancellation
    ioFailed,         \* history: a file system or script failure happened
    routed            \* history: the index of each sample appended, with its place

vars == <<cfg, t, pc, fontSize, coverage, row, col, style, drawn, visited, si, idx,
          summaryTraining, summaryTest, err, ctxDone, dirs, files, labelMap, docs,
          prepared, generated, observedAt, ioFailed, routed>>

gridVars == <<fontSize, coverage, row, col, style, drawn, visited>>
gatherVars == <<idx, summaryTraining, summaryTest, err, ctxDone, dirs, files,
                labelMap, docs, prepared, generated, observedAt, ioFailed, routed>>

(***************************************************************************)
(* Bounds of the model.                                                    *)
(***************************************************************************)
MaxCount == 3       \* configured counts are 0..MaxCount
MaxSide == 25       \* canvas widths and heights of SpecGrid are MaxSide-1..MaxSide
MaxGatherCount == 2 \* configured counts of the Gather runs are 0..MaxGatherCount
MaxStyles == 3      \* configured schemes, font colors and fonts of SpecStyle are 0..MaxStyles

Counts == 0..MaxCount
Proportions == 0..100
Sides == (MaxSide - 1)..MaxSide

(***************************************************************************)
(* math/rand: Intn(n) returns an integer of [0, n).                        *)
(***************************************************************************)
Intn(n) == 0..(n - 1)

(***************************************************************************)
(* NewTrainer, "Count" to "Training and test data counts" and "Image".     *)
(***************************************************************************)
DefaultCount(count) == IF count = 0 THEN 1 ELSE count

DefaultProportion(p) == IF p = 0 THEN 30 ELSE p

\* a split that rounds the test share up instead of truncating it
TestDataCount_RoundUp(p, count) == (p * count + 99) \div 100

\* int(t.testDataProportion * float64(t.count) / 100): the conversion truncates
TestDataCount(p, count) == (p * count) \div 100

TrainingDataCount(count, test) == count - test

\* if t.testDataCount == 0 { t.testDataCount++; t.count++ }
BumpedTest(test) == IF test = 0 THEN test + 1 ELSE test

\* a normalisation that forgets t.count++
BumpedCount_Forgotten(count, test) == count

BumpedCount(count, test) == IF test = 0 THEN count + 1 ELSE count

DefaultHeight(h) == IF h = 0 THEN 360 ELSE h

DefaultWidth(w) == IF w = 0 THEN 640 ELSE w

\* astiimage.NewRGBA(0xff, 0, 0, 0) and NewRGBA(0xff, 0xff, 0xff, 0xff), by their
\* arguments
DefaultColors ==
    <<[Background |-> <<255, 0, 0, 0>>, Fonts |-> << <<255, 255, 255, 255>> >>]>>

\* t.colors = c.Colors; if len(t.colors) == 0 { the default scheme }
TrainerColors(colors) == IF Len(colors) = 0 THEN DefaultColors ELSE colors

\* if nft.positionRatio == 0 { nft.positionRatio = 2.5 }, in tenths
PositionRatio(r) == IF r = 0 THEN 25 ELSE r

\* the font NewTrainer makes of a configured font whose file was read
LoadFont(f) == [name |-> f.File, positionRatio |-> PositionRatio(f.PositionRatio)]

\* "Loop through fonts": the configured fonts, or gomono when none is configured
TrainerFonts(fonts) ==
    IF Len(fonts) > 0
    THEN [i \in 1..Len(fonts) |-> LoadFont(fonts[i])]
    ELSE <<[name |-> "gomono", positionRatio |-> 25]>>

NewTrainer(c) ==
    LET count == DefaultCount(c.Count)
        p == DefaultProportion(c.TestDataProportion)
        test == TestDataCount(p, count)
    IN [count |-> BumpedCount(count, test),
        testDataProportion |-> p,
        testDataCount |-> BumpedTest(test),
        trainingDataCount |-> TrainingDataCount(count, test),
        colors |-> TrainerColors(c.Colors),
        fonts |-> TrainerFonts(c.Fonts),
        image |-> [Height |-> DefaultHeight(c.Image.Height),
                   Width |-> DefaultWidth(c.Image.Width)]]

\* the zero value of a Trainer
ZeroTrainer ==
    [count |-> 0, testDataProportion |-> 0, testDataCount |-> 0,
     trainingDataCount |-> 0, colors |-> <<>>, fonts |-> <<>>,
     image |-> [Height |-> 0, Width |-> 0]]

\* a ConfigurationTrainer without colors and fonts
Config(count, p, h, w) ==
    [Count |-> count, TestDataProportion |-> p, Colors |-> <<>>, Fonts |-> <<>>,
     Image |-> [Height |-> h, Width |-> w]]

\* the configuration c with the colors and the fonts given
Styled(c, colors, fonts) == [c EXCEPT !.Colors = colors, !.Fonts = fonts]

(***************************************************************************)
(* gather.go: the label alphabet and the random draws.                     *)
(***************************************************************************)
characters ==
    <<"a", "b", "c", "d", "e", "f", "g", "h", "i", "j", "k", "l", "m",
      "n", "o", "p", "q", "r", "s", "t", "u", "v", "w", "x", "y", "z",
      "A", "B", "C", "D", "E", "F", "G", "H", "I", "J", "K", "L", "M",
      "N", "O", "P", "Q", "R", "S", "T", "U", "V", "W", "X", "Y", "Z">>

\* characters[charIdx] of the source, whose index is 0-based
CharAt(charIdx) == characters[charIdx + 1]

\* initParams: fontSize = rand.Intn(6) + 12
MinFontSize == 12

FontSizes == {n + MinFontSize : n \in Intn(6)}

\* createImageStrategy2: coverage := rand.Intn(50)
Coverages == Intn(50)

\* drawCharacters: the draws of rand.Intn(100)
CoverageDraws == Intn(100)

\* drawCharacter: charIdx = rand.Intn(len(characters) - 1)
CharIndices == Intn(Len(characters) - 1)

\* a coverage check that skips the cell when the draw equals the coverage
Skipped_OnEqual(d, cov) == d >= cov

\* drawCharacters: if rand.Intn(100) > coverage { continue }
Skipped(d, cov) == d > cov

\* the draws of rand.Intn(100) that end the iteration, and those that do not
SkippingDraws(cov) == {d \in CoverageDraws : Skipped(d, cov)}

PlacingDraws(cov) == {d \in CoverageDraws : ~Skipped(d, cov)}

\* a tracking of the lower case letter only
BoxTracked_LowerOnly(char) == char = "e"

\* drawCharacters: if char == "E" || char == "e"
BoxTracked(char) == char = "E" \/ char = "e"

\* a cell whose box starts at the base line: y0 = row
GridCoordinates_Flat(c, r, step) ==
    [X0 |-> c, X1 |-> c + step, Y0 |-> r, Y1 |-> r]

\* drawCharacters: x0, x1, y0, y1 := col, col+step, row-step, row
GridCoordinates(c, r, step) ==
    [X0 |-> c, X1 |-> c + step, Y0 |-> r - step, Y1 |-> r]

\* a label index that keeps the 0-based index of the source
LabelIndex_ZeroBased(charIdx) == charIdx

\* drawCharacters: LabelIndex: charIdx + 1
LabelIndex(charIdx) == charIdx + 1

\* the GatherSummaryBox appended for the character charIdx drawn in cell (c, r)
SummaryBox(charIdx, c, r, step) ==
    LET g == GridCoordinates(c, r, step)
    IN [Label |-> CharAt(charIdx), LabelIndex |-> LabelIndex(charIdx),
        X0 |-> g.X0, X1 |-> g.X1, Y0 |-> g.Y0, Y1 |-> g.Y1]

\* One iteration of the inner loop of drawCharacters with the draws d (coverage
\* check) and charIdx (drawCharacter): the character indexes it records a box
\* for, none or one.
Recorded(d, charIdx, cov) ==
    IF Skipped(d, cov) THEN <<>>
    ELSE IF BoxTracked(CharAt(charIdx)) THEN <<charIdx>>
    ELSE <<>>

\* the same for a character that drawCharacter placed: the check was passed
RecordedPlaced(charIdx) ==
    IF BoxTracked(CharAt(charIdx)) THEN <<charIdx>> ELSE <<>>

\* the boxes one iteration appends to si.Boxes
CellBoxes(rec, c, r, step) ==
    IF Len(rec) = 0 THEN <<>> ELSE <<SummaryBox(rec[1], c, r, step)>>

\* a loop through the rows that includes the row of the bottom edge
RowInside_Inclusive(r, image) == r <= image.Height

\* drawCharacters: the conditions of the two loops
RowInside(r, image) == r < image.Height

\* a loop through the columns that includes the cell ending at the right edge
ColInside_Inclusive(c, step, image) == c + step <= image.Width

ColInside(c, step, image) == c + step < image.Width

\* a selection among all the n elements
SelectIndex_Whole(n) == IF n > 1 THEN Intn(n) ELSE {0}

\* initParams: x = list[0]; if len(list) > 1 { x = list[rand.Intn(len(list)-1)] }:
\* the 0-based indexes the selection can give in a list of n elements
SelectIndex(n) == IF n > 1 THEN Intn(n - 1) ELSE {0}

\* initParams: cc.Fonts[0] is read before the length of cc.Fonts is looked at
FontColorOutOfRange(cc) == Len(cc.Fonts) = 0

\* the zero value of the selection
NoStyle == [scheme |-> -1, fontColor |-> -1, font |-> -1]

\* createImage: the summary image of a fresh canvas
CreateImage(height, width) ==
    [Height |-> height, Width |-> width, Boxes |-> <<>>, Path |-> 0]

\* the zero value of a GatherSummaryImage
ZeroImage == [Height |-> 0, Width |-> 0, Boxes |-> <<>>, Path |-> 0]

(***************************************************************************)
(* createImageStrategy2 and drawCharacters, one grid cell a step.          *)
(***************************************************************************)
Strategy2Begin ==
    /\ pc = "strategy2"
    /\ \E c \in SelectIndex(Len(t.colors)) :
          LET cc == t.colors[c + 1]
          IN IF FontColorOutOfRange(cc)
             THEN /\ pc' = "panic"
                  /\ UNCHANGED <<fontSize, coverage, row, col, style, drawn, visited, si>>
             ELSE /\ \E f \in SelectIndex(Len(cc.Fonts)), g \in SelectIndex(Len(t.fonts)) :
                        style' = [scheme |-> c, fontColor |-> f, font |-> g]
                  /\ \E fs \in FontSizes, cov \in Coverages :
                        /\ fontSize' = fs
                        /\ coverage' = cov
                        /\ row' = fs
                        /\ col' = 0
                  /\ drawn' = -1
                  /\ visited' = 0
                  /\ si' = CreateImage(t.image.Height, t.image.Width)
                  /\ pc' = "cells"
    /\ UNCHANGED <<cfg, t>>
    /\ UNCHANGED gatherVars

\* one iteration of the inner loop that the coverage check ends: continue
SkipCell ==
    /\ pc = "cells"
    /\ RowInside(row, t.image)
    /\ ColInside(col, fontSize, t.image)
    /\ SkippingDraws(coverage) # {}
    /\ drawn' = -1
    /\ visited' = visited + 1
    /\ col' = col + fontSize
    /\ UNCHANGED <<cfg, t, pc, fontSize, coverage, row, style, si>>
    /\ UNCHANGED gatherVars

\* one iteration of the inner loop that passes the coverage check: drawCharacter
\* places a character, and its box is appended if the character is tracked
PlaceCharacter ==
    /\ pc = "cells"
    /\ RowInside(row, t.image)
    /\ ColInside(col, fontSize, t.image)
    /\ PlacingDraws(coverage) # {}
    /\ \E charIdx \in CharIndices :
          /\ si' = [si EXCEPT !.Boxes =
                       @ \o CellBoxes(RecordedPlaced(charIdx), col, row, fontSize)]
          /\ drawn' = charIdx
    /\ visited' = visited + 1
    /\ col' = col + fontSize
    /\ UNCHANGED <<cfg, t, pc, fontSize, coverage, row, style>>
    /\ UNCHANGED gatherVars

\* one iteration of the inner loop of drawCharacters
DrawCell == SkipCell \/ PlaceCharacter

NextRow ==
    /\ pc = "cells"
    /\ RowInside(row, t.image)
    /\ ~ColInside(col, fontSize, t.image)
    /\ row' = row + fontSize
    /\ col' = 0
    /\ UNCHANGED <<cfg, t, pc, fontSize, coverage, style, drawn, visited, si>>
    /\ UNCHANGED gatherVars

EndGrid ==
    /\ pc = "cells"
    /\ ~RowInside(row, t.image)
    /\ pc' = "sampled"
    /\ UNCHANGED <<cfg, t, si>>
    /\ UNCHANGED gridVars
    /\ UNCHANGED gatherVars

(***************************************************************************)
(* The whole grid pass as Gather sees it: every list of boxes that         *)
(* drawCharacters can leave in si.Boxes, by the same loops.                *)
(***************************************************************************)
\* what one iteration can record under a coverage, over all its draws
RecordedByCoverage ==
    [cov \in Coverages |->
        {Recorded(d, charIdx, cov) : d \in CoverageDraws, charIdx \in CharIndices}]

RECURSIVE GridPass(_, _, _, _, _)
GridPass(r, c, step, cov, image) ==
    IF ~RowInside(r, image) THEN {<<>>}
    ELSE IF ~ColInside(c, step, image) THEN GridPass(r + step, 0, step, cov, image)
    ELSE {CellBoxes(rec, c, r, step) \o rest :
             rec \in RecordedByCoverage[cov],
             rest \in GridPass(r, c + step, step, cov, image)}

\* createImageStrategy2: the box lists of a sample, over the draws of initParams
\* and of the coverage
Strategy2Boxes(image) ==
    UNION {GridPass(fs, 0, fs, cov, image) : fs \in FontSizes, cov \in Coverages}

(***************************************************************************)
(* Gather: errors, folders, label map.                                     *)
(***************************************************************************)
Nil == "nil"

\* a Wrap that makes an error of a nil error
Wrap_Always(e, msg) == msg

\* errors.Wrap returns nil when the error it is given is nil
Wrap(e, msg) == IF e = Nil THEN Nil ELSE msg

Folders == {"images", "test", "training"}

\* createDataFolders: the folders in the order of creation
FolderOrder == <<"images", "test", "training">>

\* createDataFolders: the loop assigns err at every MkdirAll and never leaves early
RECURSIVE MkdirAllLoop(_, _, _)
MkdirAllLoop(i, made, e) ==
    IF i > Len(FolderOrder) THEN e
    ELSE MkdirAllLoop(i + 1, made,
            IF made[FolderOrder[i]] THEN Nil ELSE "mkdirall failed")

\* createLabelMap: if c == 'E' || c == 'e'
LabelMapTracked(c) == c = "E" \/ c = "e"

\* a label map that writes the 0-based index
LabelMapId_ZeroBased(i) == i

\* createLabelMap: id: idx+1
LabelMapId(i) == i + 1

\* createLabelMap: the items written by the loop through characters from index i
RECURSIVE LabelMapItems(_)
LabelMapItems(i) ==
    IF i >= Len(characters) THEN <<>>
    ELSE (IF LabelMapTracked(CharAt(i))
          THEN <<[id |-> LabelMapId(i), name |-> CharAt(i)]>>
          ELSE <<>>) \o LabelMapItems(i + 1)

\* a routing that sends one sample too many to the training summary
ToTraining_Inclusive(i, tr) == i <= tr.trainingDataCount

\* Gather: if idx < t.trainingDataCount (the summary a sample is appended to)
ToTraining(i, tr) == i < tr.trainingDataCount

\* a loop that keeps the samples without boxes
NoBoxes_Never(s) == FALSE

\* Gather: if len(si.Boxes) == 0 { continue }
NoBoxes(s) == Len(s.Boxes) = 0

\* a storeImage that names the file by the 0-based index
ImagePath_ZeroBased(i) == i

\* storeImage: the file <idx+1>.png of the images directory, by its number
ImagePath(i) == i + 1

\* a prepareData that runs the command without the context
CommandStarts_Always(done) == TRUE

\* prepareData: exec.CommandContext does not start the command once ctx is done
CommandStarts(done) == ~done

CreateDataFolders ==
    /\ pc = "createDataFolders"
    /\ \E removed \in BOOLEAN, made \in [Folders -> BOOLEAN] :
          IF ~removed
          THEN /\ err' = Wrap("removeAll failed", "creating data folders failed")
               /\ pc' = "done"
               /\ ioFailed' = TRUE
               /\ UNCHANGED <<dirs, files, docs, labelMap>>
          ELSE LET e == MkdirAllLoop(1, made, Nil)
               IN /\ dirs' = {f \in Folders : made[f]}
                  /\ files' = {}
                  /\ docs' = {}
                  /\ labelMap' = <<>>
                  /\ ioFailed' = (\E f \in Folders : ~made[f])
                  /\ IF e # Nil
                     THEN /\ err' = Wrap(e, "creating data folders failed")
                          /\ pc' = "done"
                     ELSE /\ err' = e
                          /\ pc' = "createLabelMap"
    /\ UNCHANGED <<routed, cfg, t, si, idx, summaryTraining, summaryTest, ctxDone,
                   prepared, generated, observedAt>>
    /\ UNCHANGED gridVars

CreateLabelMap ==
    /\ pc = "createLabelMap"
    /\ LET items == LabelMapItems(0)
       IN \E created \in BOOLEAN, failAt \in 0..Len(items) :
             IF ~created
             THEN /\ err' = Wrap("create failed", "creating label map failed")
                  /\ pc' = "done"
                  /\ ioFailed' = TRUE
                  /\ UNCHANGED labelMap
             ELSE IF failAt # 0
             THEN /\ labelMap' = SubSeq(items, 1, failAt - 1)
                  /\ err' = Wrap("write failed", "creating label map failed")
                  /\ pc' = "done"
                  /\ ioFailed' = TRUE
             ELSE /\ labelMap' = items
                  /\ err' = Nil
                  /\ pc' = "loop"
                  /\ UNCHANGED ioFailed
    /\ UNCHANGED <<routed, cfg, t, si, idx, summaryTraining, summaryTest, ctxDone, dirs,
                   files, docs, prepared, generated, observedAt>>
    /\ UNCHANGED gridVars

(***************************************************************************)
(* Gather: the loop through count.                                         *)
(***************************************************************************)
\* a check of the context that leaves the loop instead of leaving Gather
CheckContext_Break ==
    /\ pc = "loop"
    /\ idx < t.count
    /\ ctxDone
    /\ pc' = "writeSummaries"
    /\ observedAt' = idx
    /\ UNCHANGED <<routed, cfg, t, si, idx, summaryTraining, summaryTest, err, ctxDone, dirs,
                   files, labelMap, docs, prepared, generated, ioFailed>>
    /\ UNCHANGED gridVars

\* the check of the context that precedes sample idx, with the context done
CheckContext ==
    /\ pc = "loop"
    /\ idx < t.count
    /\ ctxDone
    /\ err' = Wrap(err, "context error")
    /\ pc' = "done"
    /\ observedAt' = idx
    /\ UNCHANGED <<routed, cfg, t, si, idx, summaryTraining, summaryTest, ctxDone, dirs,
                   files, labelMap, docs, prepared, generated, ioFailed>>
    /\ UNCHANGED gridVars

\* the check passes and createImageStrategy2 creates sample idx, unless
\* initParams indexes an empty list of font colors and the program panics
CreateSample ==
    /\ pc = "loop"
    /\ idx < t.count
    /\ ~ctxDone
    /\ \E c \in SelectIndex(Len(t.colors)) :
          IF FontColorOutOfRange(t.colors[c + 1])
          THEN /\ pc' = "panic"
               /\ UNCHANGED <<si, generated>>
          ELSE /\ \E boxes \in Strategy2Boxes(t.image) :
                     /\ si' = [CreateImage(t.image.Height, t.image.Width)
                                  EXCEPT !.Boxes = boxes]
                     /\ generated' = Append(generated, Len(boxes))
               /\ pc' = "store"
    /\ UNCHANGED <<routed, cfg, t, idx, summaryTraining, summaryTest, err, ctxDone, dirs,
                   files, labelMap, docs, prepared, observedAt, ioFailed>>
    /\ UNCHANGED gridVars

\* "No boxes": the sample is dropped
DropSample ==
    /\ pc = "store"
    /\ NoBoxes(si)
    /\ idx' = idx + 1
    /\ pc' = "loop"
    /\ UNCHANGED <<routed, cfg, t, si, summaryTraining, summaryTest, err, ctxDone, dirs,
                   files, labelMap, docs, prepared, generated, observedAt, ioFailed>>
    /\ UNCHANGED gridVars

\* "Store image" and "Append image to summary"
StoreSample ==
    /\ pc = "store"
    /\ ~NoBoxes(si)
    /\ \E created \in BOOLEAN, encoded \in BOOLEAN :
          LET p == ImagePath(idx)
              stored == [si EXCEPT !.Path = p]
          IN IF ~("images" \in dirs /\ created)
             THEN /\ err' = Wrap("create failed", "storing image failed")
                  /\ pc' = "done"
                  /\ ioFailed' = TRUE
                  /\ UNCHANGED <<si, idx, summaryTraining, summaryTest, files, routed>>
             ELSE IF ~encoded
             THEN /\ files' = files \cup {p}
                  /\ err' = Wrap("encode failed", "storing image failed")
                  /\ pc' = "done"
                  /\ ioFailed' = TRUE
                  /\ UNCHANGED <<si, idx, summaryTraining, summaryTest, routed>>
             ELSE /\ files' = files \cup {p}
                  /\ si' = stored
                  /\ IF ToTraining(idx, t)
                     THEN /\ summaryTraining' = Append(summaryTraining, stored)
                          /\ routed' = Append(routed,
                                [idx |-> idx, split |-> "training",
                                 pos |-> Len(summaryTraining) + 1])
                          /\ UNCHANGED summaryTest
                     ELSE /\ summaryTest' = Append(summaryTest, stored)
                          /\ routed' = Append(routed,
                                [idx |-> idx, split |-> "test",
                                 pos |-> Len(summaryTest) + 1])
                          /\ UNCHANGED summaryTraining
                  /\ idx' = idx + 1
                  /\ err' = Nil
                  /\ pc' = "loop"
                  /\ UNCHANGED ioFailed
    /\ UNCHANGED <<cfg, t, ctxDone, dirs, labelMap, docs, prepared, generated,
                   observedAt>>
    /\ UNCHANGED gridVars

\* the loop ends: idx < t.count is false
LoopExit ==
    /\ pc = "loop"
    /\ ~(idx < t.count)
    /\ pc' = "writeSummaries"
    /\ UNCHANGED <<routed, cfg, t, si>>
    /\ UNCHANGED gatherVars
    /\ UNCHANGED gridVars

(***************************************************************************)
(* Gather: writeSummaries and prepareData.                                 *)
(***************************************************************************)
\* writeSummaries ranges over a map: either summary may come first
SummaryOrders == {<<"test", "training">>, <<"training", "test">>}

\* the outcome of one writeSummary: the file is not created, the encoding
\* fails after the file was created, or the document is written
WriteOutcomes == {"create failed", "encode failed", "written"}

\* writeSummary of the summary of split under the outcome the file system allows
WriteOutcome(split, wanted) ==
    IF split \notin dirs THEN "create failed" ELSE wanted

\* the document writeSummary leaves, if any
Document(split, images, outcome) ==
    IF outcome = "create failed" THEN {}
    ELSE {[split |-> split, complete |-> (outcome = "written"), images |-> images]}

SummaryOf(split) == IF split = "training" THEN summaryTraining ELSE summaryTest

WriteSummaries ==
    /\ pc = "writeSummaries"
    /\ \E order \in SummaryOrders, w1 \in WriteOutcomes, w2 \in WriteOutcomes :
          LET o1 == WriteOutcome(order[1], w1)
              o2 == WriteOutcome(order[2], w2)
              d1 == Document(order[1], SummaryOf(order[1]), o1)
              d2 == Document(order[2], SummaryOf(order[2]), o2)
          IN IF o1 # "written"
             THEN /\ docs' = docs \cup d1
                  /\ err' = Wrap(o1, "writing summary failed")
                  /\ pc' = "done"
                  /\ ioFailed' = TRUE
             ELSE IF o2 # "written"
             THEN /\ docs' = docs \cup d1 \cup d2
                  /\ err' = Wrap(o2, "writing summary failed")
                  /\ pc' = "done"
                  /\ ioFailed' = TRUE
             ELSE /\ docs' = docs \cup d1 \cup d2
                  /\ err' = Nil
                  /\ pc' = "prepareData"
                  /\ UNCHANGED ioFailed
    /\ UNCHANGED <<routed, cfg, t, si, idx, summaryTraining, summaryTest, ctxDone, dirs,
                   files, labelMap, prepared, generated, observedAt>>
    /\ UNCHANGED gridVars

\* prepareData: cmd.CombinedOutput starts the command, unless the context is done
PrepareData ==
    /\ pc = "prepareData"
    /\ IF CommandStarts(ctxDone)
       THEN /\ prepared' = prepared + 1
            /\ pc' = "preparing"
            /\ UNCHANGED err
       ELSE /\ err' = Wrap("context canceled", "preparing data failed")
            /\ pc' = "done"
            /\ UNCHANGED prepared
    /\ UNCHANGED <<routed, cfg, t, si, idx, summaryTraining, summaryTest, ctxDone, dirs,
                   files, labelMap, docs, generated, observedAt, ioFailed>>
    /\ UNCHANGED gridVars

\* prepareData: the command ends; a context done meanwhile has killed it, unless
\* it had ended already
CommandEnds ==
    /\ pc = "preparing"
    /\ \E exit \in {"ok", "failed", "killed"} :
          /\ exit = "killed" => ctxDone
          /\ err' = IF exit = "ok" THEN Nil
                    ELSE Wrap(exit, "preparing data failed")
          /\ ioFailed' = (ioFailed \/ exit = "failed")
    /\ pc' = "done"
    /\ UNCHANGED <<routed, cfg, t, si, idx, summaryTraining, summaryTest, ctxDone, dirs,
                   files, labelMap, docs, prepared, generated, observedAt>>
    /\ UNCHANGED gridVars

\* the caller cancels the context while Gather runs
Cancel ==
    /\ pc \in {"createDataFolders", "createLabelMap", "loop", "store",
               "writeSummaries", "prepareData", "preparing"}
    /\ ~ctxDone
    /\ ctxDone' = TRUE
    /\ UNCHANGED <<routed, cfg, t, pc, si, idx, summaryTraining, summaryTest, err, dirs,
                   files, labelMap, docs, prepared, generated, observedAt, ioFailed>>
    /\ UNCHANGED gridVars

(***************************************************************************)
(* NewTrainer as an action, and the three specifications.                  *)
(***************************************************************************)
\* NewTrainer returns an error when a configured font file cannot be read or
\* parsed; the trainer is not used then
Construct ==
    /\ pc = "config"
    /\ \E loaded \in BOOLEAN :
          IF Len(cfg.Fonts) > 0 /\ ~loaded
          THEN /\ pc' = "rejected"
               /\ UNCHANGED t
          ELSE /\ t' = NewTrainer(cfg)
               /\ pc' = "constructed"
    /\ UNCHANGED <<cfg, si>>
    /\ UNCHANGED gatherVars
    /\ UNCHANGED gridVars

\* the values every specification starts the run's variables with
Fresh ==
    /\ fontSize = 0
    /\ coverage = 0
    /\ row = 0
    /\ col = 0
    /\ style = NoStyle
    /\ drawn = -1
    /\ visited = 0
    /\ si = ZeroImage
    /\ idx = 0
    /\ summaryTraining = <<>>
    /\ summaryTest = <<>>
    /\ err = Nil
    /\ files = {}
    /\ labelMap = <<>>
    /\ docs = {}
    /\ prepared = 0
    /\ generated = <<>>
    /\ observedAt = -1
    /\ ioFailed = FALSE
    /\ routed = <<>>

\* configured colors: k schemes of k font colors each
SchemeList(k) ==
    [i \in 1..k |-> [Background |-> <<255, i, 0, 0>>,
                     Fonts |-> [j \in 1..k |-> <<255, j, j, j>>]]]

\* a configured scheme without font colors
EmptyFontsScheme == <<[Background |-> <<255, 0, 0, 0>>, Fonts |-> <<>>]>>

\* configured fonts: k files, the first without a position ratio
FontList(k) ==
    [i \in 1..k |-> [File |-> <<"font", i>>,
                     PositionRatio |-> IF i = 1 THEN 0 ELSE 20]]

InitTrainer ==
    /\ cfg \in {Styled(Config(n, p, 0, 0), <<>>, fonts) :
                   n \in Counts, p \in Proportions, fonts \in {<<>>, FontList(1)}}
    /\ t = ZeroTrainer
    /\ pc = "config"
    /\ ctxDone = FALSE
    /\ dirs = {}
    /\ Fresh

NextTrainer == Construct

SpecTrainer == InitTrainer /\ [][NextTrainer]_vars

InitGrid ==
    /\ cfg \in {Config(1, 0, h, w) : h \in Sides, w \in Sides}
    /\ t = NewTrainer(cfg)
    /\ pc = "strategy2"
    /\ ctxDone = FALSE
    /\ dirs = {}
    /\ Fresh

NextGrid == Strategy2Begin \/ DrawCell \/ NextRow \/ EndGrid

SpecGrid == InitGrid /\ [][NextGrid]_vars

\* the grid pass over the default canvas of 640 x 360, every cell skipped
InitCells ==
    /\ cfg = Config(1, 0, 0, 0)
    /\ t = NewTrainer(cfg)
    /\ pc = "strategy2"
    /\ ctxDone = FALSE
    /\ dirs = {}
    /\ Fresh

NextCells == Strategy2Begin \/ SkipCell \/ NextRow \/ EndGrid

SpecCells == InitCells /\ [][NextCells]_vars

\* the proportions of the Gather runs: unset, a half, all
GatherProportions == {0, 50, 100}

\* the canvas of the Gather runs holds one cell, whatever the font size
GatherSide == 2 * MinFontSize

\* one sample on a canvas of one cell, for no colors and fonts configured, for
\* 1..MaxStyles of each, and for a scheme without font colors
InitStyle ==
    /\ cfg \in {Styled(Config(1, 0, GatherSide, GatherSide), SchemeList(k), FontList(k)) :
                   k \in 0..MaxStyles}
               \cup {Styled(Config(1, 0, GatherSide, GatherSide), EmptyFontsScheme, <<>>)}
    /\ t = NewTrainer(cfg)
    /\ pc = "strategy2"
    /\ ctxDone = FALSE
    /\ dirs = {}
    /\ Fresh

NextStyle == Strategy2Begin \/ DrawCell \/ NextRow \/ EndGrid

SpecStyle == InitStyle /\ [][NextStyle]_vars

Init ==
    /\ cfg \in {Styled(Config(n, p, GatherSide, GatherSide), colors, <<>>) :
                   n \in 0..MaxGatherCount, p \in GatherProportions,
                   colors \in {<<>>, EmptyFontsScheme}}
    /\ t = NewTrainer(cfg)
    /\ pc = "createDataFolders"
    /\ ctxDone \in BOOLEAN
    /\ dirs \in {{}, Folders}
    /\ Fresh

Next ==
    \/ CreateDataFolders
    \/ CreateLabelMap
    \/ CheckContext
    \/ CreateSample
    \/ DropSample
    \/ StoreSample
    \/ LoopExit
    \/ WriteSummaries
    \/ PrepareData
    \/ CommandEnds
    \/ Cancel

Spec == Init /\ [][Next]_vars

(***************************************************************************)
(* Properties of NewTrainer (SpecTrainer).                                 *)
(***************************************************************************)
\* C1: after NewTrainer, trainingDataCount + testDataCount = count (the effective
\* count) and testDataCount >= 1 whenever count >= 1.
C1_SplitAddsUp ==
    pc = "constructed" =>
        /\ t.trainingDataCount + t.testDataCount = t.count
        /\ (t.count >= 1 => t.testDataCount >= 1)

C1_Witness ==
    /\ pc = "constructed"
    /\ cfg.Count = 3
    /\ cfg.TestDataProportion = 10
    /\ t.count = 4
    /\ t.testDataCount = 1

\* C2: with n the configured count (0 read as 1) and p the configured proportion
\* (0 read as 30): test = floor(p*n/100), training = n - test, and only a test of
\* 0 raises test and the count by one, the training left alone; count 1 with
\* proportion 30 gives count 2, training 1, test 1.
C2_SplitComputation ==
    pc = "constructed" =>
        LET n == IF cfg.Count = 0 THEN 1 ELSE cfg.Count
            p == IF cfg.TestDataProportion = 0 THEN 30 ELSE cfg.TestDataProportion
            f == CHOOSE k \in 0..n : 100 * k <= p * n /\ p * n < 100 * (k + 1)
        IN /\ t.trainingDataCount = n - f
           /\ (f = 0 => t.testDataCount = 1 /\ t.count = n + 1)
           /\ (f >= 1 => t.testDataCount = f /\ t.count = n)
           /\ (cfg.Count = 1 /\ cfg.TestDataProportion = 30 =>
                  t.count = 2 /\ t.trainingDataCount = 1 /\ t.testDataCount = 1)

C2_Witness ==
    /\ pc = "constructed"
    /\ cfg.Count = 1
    /\ cfg.TestDataProportion = 30
    /\ t.count = 2
    /\ t.trainingDataCount = 1
    /\ t.testDataCount = 1

(***************************************************************************)
(* Properties of the grid pass (SpecGrid).                                 *)
(***************************************************************************)
BoxesOf(s) == {s.Boxes[k] : k \in 1..Len(s.Boxes)}

\* C4: every box of the sample has x0 < x1, y0 < y1 and a width and a height
\* equal to the font size of the sample, an integer of 12..17.
C4_BoxGeometry ==
    \A b \in BoxesOf(si) :
        /\ b.X0 < b.X1
        /\ b.Y0 < b.Y1
        /\ b.X1 - b.X0 = fontSize
        /\ b.Y1 - b.Y0 = fontSize
        /\ fontSize \in 12..17

C4_Witness ==
    /\ pc = "sampled"
    /\ Len(si.Boxes) >= 2
    /\ fontSize = 12

\* C5: the label index of every box is the 1-based position of its label in
\* the whole alphabet (5 for e, 31 for E), not its position among the tracked
\* labels.
C5_LabelIndexInAlphabet ==
    \A b \in BoxesOf(si) :
        /\ b.LabelIndex \in 1..Len(characters)
        /\ characters[b.LabelIndex] = b.Label
        /\ \A k \in 1..Len(characters) : characters[k] = b.Label => k = b.LabelIndex
        /\ b.LabelIndex \in {5, 31}

C5_Witness ==
    /\ pc = "sampled"
    /\ \E b \in BoxesOf(si) : b.Label = "E" /\ b.LabelIndex = 31
    /\ \E b \in BoxesOf(si) : b.Label = "e" /\ b.LabelIndex = 5

(***************************************************************************)
(* Properties of Gather (Spec).                                            *)
(***************************************************************************)
Entries == summaryTraining \o summaryTest

EntrySet == {Entries[k] : k \in 1..Len(Entries)}

\* C3: every image file and every summary entry belongs to a sample that was
\* created with at least one box; a sample without boxes leaves neither.
C3_EmptySampleDropped ==
    /\ \A f \in files : f \in 1..Len(generated) /\ generated[f] > 0
    /\ \A e \in EntrySet :
          /\ Len(e.Boxes) > 0
          /\ e.Path \in 1..Len(generated)
          /\ generated[e.Path] = Len(e.Boxes)

C3_Witness ==
    /\ pc = "writeSummaries"
    /\ files # {}
    /\ \E i \in 1..Len(generated) :
          generated[i] = 0 /\ i \notin files /\ \A e \in EntrySet : e.Path # i

\* createLabelMap returned without error
LabelMapCreated ==
    /\ pc \notin {"createDataFolders", "createLabelMap"}
    /\ err \notin {"creating data folders failed", "creating label map failed"}

\* C6: the label map holds one item for e and one for E and no other item; the
\* id of an item is the 1-based position of its character in the alphabet, and
\* the ids differ.
C6_LabelMap ==
    LabelMapCreated =>
        /\ {labelMap[k].name : k \in 1..Len(labelMap)} = {"e", "E"}
        /\ Len(labelMap) = 2
        /\ \A k \in 1..Len(labelMap) :
              /\ labelMap[k].id \in 1..Len(characters)
              /\ characters[labelMap[k].id] = labelMap[k].name
        /\ labelMap[1].id # labelMap[2].id

C6_Witness ==
    /\ pc = "loop"
    /\ labelMap = <<[id |-> 5, name |-> "e"], [id |-> 31, name |-> "E"]>>

\* C7: once the check before sample k has observed the cancellation, no image
\* of index >= k exists, no summary document exists, the script was never
\* launched, and the files and directories stay as they were at the check.
C7_CancelStopsRun ==
    /\ [](observedAt # -1 =>
            /\ \A f \in files : f - 1 < observedAt
            /\ docs = {}
            /\ prepared = 0
            /\ (observedAt = 0 => files = {}))
    /\ [][observedAt' # -1 => files' = files /\ dirs' = dirs]_vars

C7_Witness ==
    /\ observedAt = 1
    /\ files = {1}
    /\ docs = {}
    /\ pc = "done"

\* C8: a cancellation observed at a check of the loop makes Gather return nil.
C8_CancelReturnsNil ==
    observedAt # -1 => pc = "done" /\ err = Nil

C8_Witness ==
    /\ observedAt = 0
    /\ pc = "done"
    /\ err = Nil
    /\ files = {}

\* C9 as stated: in a run that meets no file system or script failure, no
\* summary document is written once the context is cancelled, and the cancelled
\* run returns nil.
C9_CancelAlwaysClean ==
    [][~ioFailed' =>
          /\ (ctxDone => docs' = docs)
          /\ (ctxDone' /\ pc' = "done" => err' = Nil)]_vars

\* C9 as amended: only a cancellation observed at a check of the loop ends the
\* run with nil and without summaries; with the context done after the last
\* check writeSummaries still writes both documents, and a context done when
\* prepareData starts the command keeps the command from starting and makes
\* Gather return an error.
C9_CancelCleanOnlyAtCheck ==
    [][/\ (observedAt' # -1 => docs' = {} /\ err' = Nil /\ pc' = "done")
       /\ (ctxDone /\ pc = "writeSummaries" /\ ~ioFailed' =>
              /\ pc' = "prepareData"
              /\ {d.split : d \in docs'} = {"test", "training"}
              /\ \A d \in docs' : d.complete)
       /\ (ctxDone /\ pc = "prepareData" =>
              pc' = "done" /\ err' # Nil /\ prepared' = prepared)]_vars

C9_Witness ==
    /\ ctxDone
    /\ observedAt = -1
    /\ pc = "done"
    /\ err = "preparing data failed"
    /\ ~ioFailed
    /\ prepared = 0
    /\ Cardinality(docs) = 2

\* C10: every retained sample of index i is in one summary only, the training
\* summary when i < trainingDataCount and the test summary otherwise, and the
\* entries of a summary are in strictly increasing order of generation.
Increasing(s) == \A k \in 1..(Len(s) - 1) : s[k].Path < s[k + 1].Path

Occurrences(s, p) == Cardinality({k \in 1..Len(s) : s[k].Path = p})

C10_Routing ==
    /\ \A k \in 1..Len(summaryTraining) :
          summaryTraining[k].Path - 1 < t.trainingDataCount
    /\ \A k \in 1..Len(summaryTest) :
          summaryTest[k].Path - 1 >= t.trainingDataCount
    /\ \A i \in 0..(idx - 1) :
          generated[i + 1] > 0 =>
              Occurrences(summaryTraining, i + 1) + Occurrences(summaryTest, i + 1) = 1
    /\ Increasing(summaryTraining)
    /\ Increasing(summaryTest)

C10_Witness ==
    /\ pc = "writeSummaries"
    /\ Len(summaryTraining) = 2
    /\ Len(summaryTest) = 1
    /\ summaryTraining[1].Path = 1
    /\ summaryTraining[2].Path = 2
    /\ summaryTest[1].Path = 3

\* C11: the sample of index i that was appended to a summary has the file i+1
\* in the images directory, its entry records the path of that file, and no two
\* entries of the two summaries record the same path.
C11_OneFilePerSample ==
    /\ \A k \in 1..Len(routed) :
          LET e == SummaryOf(routed[k].split)[routed[k].pos]
          IN /\ e.Path = routed[k].idx + 1
             /\ e.Path \in files
    /\ \A j, k \in 1..Len(Entries) : j # k => Entries[j].Path # Entries[k].Path
    /\ Len(routed) = Len(Entries)
    /\ Cardinality({routed[k].idx + 1 : k \in 1..Len(routed)}) = Len(routed)

C11_Witness ==
    /\ pc = "writeSummaries"
    /\ files = {1, 3}
    /\ Len(summaryTraining) = 1
    /\ Len(summaryTest) = 1
    /\ summaryTraining[1].Path = 1
    /\ summaryTest[1].Path = 3

\* C12: a Gather run that ends without error, without cancellation and without
\* failure leaves at least one sample in the test summary.
C12_TestSummaryNotEmpty ==
    (pc = "done" /\ err = Nil /\ ~ctxDone /\ ~ioFailed) => Len(summaryTest) >= 1

\* C13: the stages run in the order folders, label map, samples, summaries,
\* script; a stage starts only when the one before it succeeded; the script is
\* launched at most once and only after both summaries were written; a failure
\* in a stage makes Gather return an error and no later stage runs.
C13_StagesInOrder ==
    /\ (ioFailed => pc = "done" /\ err # Nil)
    /\ (labelMap # <<>> => pc # "createDataFolders" /\ dirs = Folders)
    /\ (generated # <<>> => Len(labelMap) = 2)
    /\ (docs # {} => ~(idx < t.count) /\ Len(labelMap) = 2)
    /\ prepared <= 1
    /\ (prepared = 1 =>
           /\ {d.split : d \in docs} = {"test", "training"}
           /\ \A d \in docs : d.complete)
    /\ (pc \in {"prepareData", "preparing"} =>
           /\ {d.split : d \in docs} = {"test", "training"}
           /\ \A d \in docs : d.complete)

\* C14: when RemoveAll or any of the three MkdirAll fails, createDataFolders
\* returns an error and Gather ends with it, before any label map or image.
C14_FolderFailureAborts ==
    [][pc = "createDataFolders" /\ ioFailed' =>
          pc' = "done" /\ err' # Nil /\ labelMap' = <<>> /\ files' = {}]_vars

(***************************************************************************)
(* Properties of the cells, the coverage and the styles.                   *)
(***************************************************************************)
\* an iteration of the inner loop of drawCharacters took place in the step
CellStep == visited' = visited + 1

\* C15: in the grid pass a box is appended for a cell if and only if a character
\* was placed in the cell and the character is E or e; any other character
\* placed, and a cell skipped, leave the boxes as they were; every label of a
\* box is E or e.
C15_BoxIffTrackedCharacter ==
    /\ [](\A b \in BoxesOf(si) : b.Label \in {"E", "e"})
    /\ [][CellStep =>
             IF drawn' # -1 /\ CharAt(drawn') \in {"E", "e"}
             THEN /\ Len(si'.Boxes) = Len(si.Boxes) + 1
                  /\ SubSeq(si'.Boxes, 1, Len(si.Boxes)) = si.Boxes
                  /\ si'.Boxes[Len(si'.Boxes)].Label = CharAt(drawn')
                  /\ si'.Boxes[Len(si'.Boxes)].X0 = col
                  /\ si'.Boxes[Len(si'.Boxes)].Y1 = row
             ELSE si' = si]_vars

C15_Witness ==
    /\ pc = "sampled"
    /\ visited = 4
    /\ Len(si.Boxes) = 1
    /\ si.Boxes[1].Label = "E"
    /\ drawn = 25

\* C16 as stated: on the canvas of 640 x 360 with font size 12 the grid pass
\* visits floor(360/12) * floor((640-12)/12 + 1) = 30 * 53 cells.
C16_CellCountAsStated ==
    (pc = "sampled" /\ fontSize = 12 /\ t.image.Width = 640 /\ t.image.Height = 360) =>
        visited = (360 \div 12) * (((640 - 12) \div 12) + 1)

\* C16 as amended: on the canvas of 640 x 360 with font size 12 the grid pass
\* visits the columns 0, 12, ... while col + 12 < 640 (53 columns, the last at
\* 624) and the rows 12, 24, ... while row < 360 (29 rows, the last at 348, the
\* row 360 left out), 29 * 53 = 1537 cells.
C16_CellCount ==
    (pc \in {"cells", "sampled"} /\ fontSize = 12
        /\ t.image.Width = 640 /\ t.image.Height = 360) =>
        /\ row % 12 = 0 /\ row \in 12..360
        /\ col % 12 = 0 /\ col \in 0..636
        /\ visited = ((row \div 12) - 1) * 53 + (col \div 12)
        /\ (pc = "sampled" => row = 360 /\ col = 0 /\ visited = 29 * 53)

C16_Witness ==
    /\ pc = "sampled"
    /\ fontSize = 12
    /\ t.image.Width = 640
    /\ t.image.Height = 360
    /\ visited = 1537

\* C17 as stated: exactly 100 - coverage of the 100 values of the draw of a cell
\* lead to a skip.
C17_SkipCountAsStated ==
    pc \in {"cells", "sampled"} =>
        Cardinality(SkippingDraws(coverage)) = 100 - coverage

\* C17 as amended: the coverage is one integer of 0..49 drawn once per sample;
\* the character of a cell is placed iff the draw d of 0..99 is <= coverage, so
\* coverage + 1 values place and exactly 99 - coverage values skip.
C17_SkipCount ==
    /\ [](pc \in {"cells", "sampled"} =>
            /\ coverage \in 0..49
            /\ PlacingDraws(coverage) = 0..coverage
            /\ SkippingDraws(coverage) = (coverage + 1)..99
            /\ Cardinality(SkippingDraws(coverage)) = 99 - coverage)
    /\ [][pc = "cells" => coverage' = coverage]_vars

C17_Witness ==
    /\ pc = "cells"
    /\ coverage = 0
    /\ visited = 2
    /\ Len(si.Boxes) = 1
    /\ drawn = -1

\* the index i selected in a list of n elements leaves the last element out
LastLeftOut(i, n) ==
    /\ (n > 1 => i \in 0..(n - 2))
    /\ (n = 2 => i = 0)
    /\ (n = 1 => i = 0)

\* C18: the color scheme, the font color within the scheme, the font and the
\* label character are selected with an index of 0..n-2 when the list has n > 1
\* elements (the first element when n = 2, never Z for the labels) and with the
\* index 0 when n = 1.
C18_LastNeverSelected ==
    /\ (style # NoStyle =>
           /\ LastLeftOut(style.scheme, Len(t.colors))
           /\ LastLeftOut(style.fontColor, Len(t.colors[style.scheme + 1].Fonts))
           /\ LastLeftOut(style.font, Len(t.fonts)))
    /\ (drawn # -1 =>
           /\ LastLeftOut(drawn, Len(characters))
           /\ CharAt(drawn) # "Z")

C18_Witness ==
    /\ pc = "sampled"
    /\ Len(t.colors) = 3
    /\ Len(t.fonts) = 3
    /\ style = [scheme |-> 1, fontColor |-> 1, font |-> 1]
    /\ drawn = 50
    /\ CharAt(drawn) = "Y"

\* C19: every box of a sample lies inside the canvas (0 <= x0, x1 < W and
\* 0 <= y0, y1 < H), x0 and y0 are multiples of the font size, and two boxes of
\* the sample share at most an edge.
C19_BoxesInsideAndApart ==
    pc \in {"cells", "sampled"} =>
        /\ \A b \in BoxesOf(si) :
              /\ 0 <= b.X0 /\ b.X0 < t.image.Width
              /\ 0 <= b.X1 /\ b.X1 < t.image.Width
              /\ 0 <= b.Y0 /\ b.Y0 < t.image.Height
              /\ 0 <= b.Y1 /\ b.Y1 < t.image.Height
              /\ b.X0 % fontSize = 0
              /\ b.Y0 % fontSize = 0
              /\ fontSize \in 12..17
        /\ \A j, k \in 1..Len(si.Boxes) :
              j # k =>
                 \/ si.Boxes[j].X1 <= si.Boxes[k].X0
                 \/ si.Boxes[k].X1 <= si.Boxes[j].X0
                 \/ si.Boxes[j].Y1 <= si.Boxes[k].Y0
                 \/ si.Boxes[k].Y1 <= si.Boxes[j].Y0

C19_Witness ==
    /\ pc = "sampled"
    /\ t.image.Width = 25
    /\ t.image.Height = 25
    /\ Len(si.Boxes) = 4
    /\ si.Boxes[4].X1 = 24
    /\ si.Boxes[4].Y1 = 24

\* C20: for every configuration that NewTrainer accepts, a scheme without font
\* colors included, Gather never indexes a list out of range while it selects
\* the style of a sample.
C20_StyleSelectionNeverPanics ==
    pc # "panic"

====
